---- MODULE Spec2Model ----
(***************************************************************************)
(* Model of the auto-dub pipeline of ilam15/Super_Clean: the Celery        *)
(* workflow of stage1..stage4 tasks, the per-chunk unit chains of the      *)
(* chord, the speaker-level gender vote and the two-level reassembly.      *)
(*                                                                         *)
(* Time is counted in ticks of 0.1 ms, so that round(x, 3) and round(x, 2) *)
(* of the source are real conversions (to multiples of 10 and of 100).     *)
(***************************************************************************)
EXTENDS Integers, Sequences, FiniteSets, TLC

VARIABLES
    entry,                 \* which workflow started the job
    pc,                    \* next task of the outer workflow
    failedStage,           \* task whose exception stopped the workflow, or "none"
    polled,                \* Celery state of the task id handed to the poller
    result,                \* result.status of the polled task, or "none"
    trace,                 \* stages executed so far, in order
    srcDur,                \* duration of the extracted source audio
    timestamps,            \* diarization turns
    overlap,               \* job-level overlap flag
    separated,             \* TRUE once the separation collaborator was invoked
    segment_audio,         \* key of the audio task_segment cut the segments from
    segments,              \* diarization_data["segments"] after task_segment
    speaker_map,           \* diarization_data["speaker_map"]
    chunks,                \* diarization_data["chunks"]
    speaker_final_gender,  \* process_stage2: majority vote per speaker
    units,                 \* one chain task_gender|task_stt|task_align|task_tts per chunk
    stage2_results,        \* list handed to process_stage3 by the chord
    segment_artifacts,     \* output of chunk_to_segments
    track,                 \* duration of the final audio track, -1 before it exists
    voteSamples,           \* input of the vote specification
    voteCanon,             \* output of the vote specification
    jobs,                  \* concurrent jobs of the path specification
    files,                 \* artifact files written, each with its writer
    response,              \* answer to the last download request
    subtitles,             \* translate_batch: the texts it was given
    handed,                \* translate_batch: the texts handed to a backend
    final_subs,            \* translate_batch: the texts it returned
    retry,                 \* a collaborator call with its attempts and waits
    mux,                   \* a merge of a video and an audio track
    target_lang,           \* target language submitted with the job
    stretch,               \* the loops that build the atempo chain
    separation,            \* one call of segment_separation
    video_path             \* the video path held by the job state and by the mux

vars == <<entry, pc, failedStage, polled, result, trace, srcDur, timestamps,
          overlap, separated, segments, speaker_map, chunks,
          speaker_final_gender, units, stage2_results, segment_artifacts,
          track, voteSamples, voteCanon, segment_audio, jobs, files, response,
          subtitles, handed, final_subs, retry, mux, target_lang, stretch, separation,
          video_path>>

pipeVars == <<entry, pc, failedStage, polled, result, trace, srcDur, timestamps,
              overlap, separated, segments, speaker_map, chunks,
              speaker_final_gender, units, stage2_results, segment_artifacts,
              track, segment_audio, video_path>>

voteVars == <<voteSamples, voteCanon>>

pathVars == <<jobs, files, response>>

auxVars == <<subtitles, handed, final_subs, retry, mux, target_lang, stretch, separation>>

\* The variables of the function-level specifications before any use.
NoResponse == [ status |-> 0, writers |-> {}, asker |-> 0, asker_pc |-> "none" ]

NoRetry == [ call |-> "none", pc |-> "idle", attempt |-> 0, log |-> <<>> ]

NoMux == [ pc |-> "idle" ]

NoStretch == [ pc |-> "idle" ]

NoSeparation == [ pc |-> "idle" ]

NoVideoPath == [ data |-> "none", arg |-> "none", mux |-> "none" ]

\* upload_video: the file location and the target language of a submission
Submitted == "data/uploads/a.mp4"

SubmittedTargets == {"en", "hi"}

\* speech_to_text: the default of its parameter target_lang
Target == "en"

AuxIdle ==
    /\ subtitles = <<>>
    /\ handed = <<>>
    /\ final_subs = <<>>
    /\ retry = NoRetry
    /\ mux = NoMux
    /\ stretch = NoStretch
    /\ separation = NoSeparation
    /\ video_path = NoVideoPath

----------------------------------------------------------------------------
\* Bounds of the model.

MaxTurns == 2
MaxChunks == 2
MaxVotes == 3

----------------------------------------------------------------------------
\* Helpers.

Min(a, b) == IF a < b THEN a ELSE b

Max(a, b) == IF a > b THEN a ELSE b

RECURSIVE SeqSum(_)
SeqSum(s) == IF s = <<>> THEN 0 ELSE Head(s) + SeqSum(Tail(s))

RECURSIVE Flatten(_)
Flatten(ss) == IF ss = <<>> THEN <<>> ELSE Head(ss) \o Flatten(Tail(ss))

\* round(x, 3): nearest multiple of 1 ms (10 ticks)
Round3(t) == ((t + 5) \div 10) * 10

\* round(x, 2): nearest multiple of 10 ms (100 ticks)
Round2(t) == ((t + 50) \div 100) * 100

Genders == {"male", "female", "unknown"}

----------------------------------------------------------------------------
\* Diarization turns the collaborator may return (start, end in ticks).

Turn(s, e, sp, ov) == [start |-> s, end |-> e, speaker |-> sp, overlap |-> ov]

TurnPool ==
    << Turn(0, 400, "B", FALSE),
       Turn(1000, 79000, "A", FALSE),
       Turn(30000, 30000, "A", FALSE),
       Turn(70044, 122087, "B", TRUE),
       Turn(101000, 149000, "A", FALSE),
       Turn(161000, 199000, "B", FALSE) >>

SourceDurations == {200000, 250000}

IncreasingIndexSeqs(n, k) ==
    { s \in UNION { [1..m -> 1..n] : m \in 0..k } :
        \A i \in 1..(Len(s) - 1) : s[i] < s[i + 1] }

TurnLists ==
    { [i \in 1..Len(ix) |-> TurnPool[ix[i]]] :
        ix \in IncreasingIndexSeqs(Len(TurnPool), MaxTurns) }

----------------------------------------------------------------------------
\* SegmentSeparator.segment_separation

Padding == 1000

MinDuration == 1500

ValidTimestamp(start, end) == ~(start < 0) /\ ~(end <= start)

PaddedStart(t) == Max(0, t.start - Padding)

PaddedEnd(t) == t.end + Padding

SegmentKept(t, cutOk) ==
    /\ ValidTimestamp(t.start, t.end)
    /\ ~(PaddedEnd(t) - PaddedStart(t) < MinDuration)
    /\ cutOk

SegmentOf(t, idx) ==
    [ segment_path |-> idx,
      start_time   |-> Round3(PaddedStart(t)),
      end_time     |-> Round3(PaddedEnd(t)),
      speaker_no   |-> t.speaker,
      overlap      |-> t.overlap,
      duration     |-> Round3(PaddedEnd(t) - PaddedStart(t)) ]

RECURSIVE SegmentSeparationFrom(_, _, _)
SegmentSeparationFrom(ts, cutOk, i) ==
    IF i > Len(ts) THEN <<>>
    ELSE (IF SegmentKept(ts[i], cutOk[i]) THEN <<SegmentOf(ts[i], i)>> ELSE <<>>)
         \o SegmentSeparationFrom(ts, cutOk, i + 1)

SegmentSeparation(ts, cutOk) == SegmentSeparationFrom(ts, cutOk, 1)

----------------------------------------------------------------------------
\* chunk_separation (fixed-duration slices of one segment) and task_chunk

ChunkLen == 50000

NumChunks(start, end) ==
    IF end <= start THEN 0 ELSE (end - start + ChunkLen - 1) \div ChunkLen

ChunkSeparation(segment_path, start, end, speaker, ov, segment_id) ==
    [ k \in 1..NumChunks(start, end) |->
        [ chunk_path |-> <<segment_path, k>>,
          segment_id |-> segment_id,
          start_time |-> start + (k - 1) * ChunkLen,
          end_time   |-> Min(start + k * ChunkLen, end),
          speaker_no |-> speaker,
          overlap    |-> ov ] ]

CanonGender(smap, speaker) ==
    IF speaker \in DOMAIN smap THEN smap[speaker].gender ELSE "male"

WithGender(c, g) ==
    [ chunk_path |-> c.chunk_path, segment_id |-> c.segment_id,
      start_time |-> c.start_time, end_time |-> c.end_time,
      speaker_no |-> c.speaker_no, overlap |-> c.overlap, gender |-> g ]

ChunksOfSegment(seg, idx, smap) ==
    LET cs == ChunkSeparation(seg.segment_path, seg.start_time, seg.end_time,
                              seg.speaker_no, seg.overlap, idx)
    IN  [ k \in 1..Len(cs) |-> WithGender(cs[k], CanonGender(smap, seg.speaker_no)) ]

\* enumerate() numbers the segments from 0
TaskChunkChunks(segs, smap) ==
    Flatten([ i \in 1..Len(segs) |-> ChunksOfSegment(segs[i], i - 1, smap) ])

PlannedChunks(ts) ==
    Len(TaskChunkChunks(SegmentSeparation(ts, [i \in 1..Len(ts) |-> TRUE]), <<>>))

----------------------------------------------------------------------------
\* Outer workflow

Entries == {"get_stage1_chain", "_start_pipeline"}

Init ==
    /\ entry \in Entries
    /\ pc = "task_audio_separator"
    /\ failedStage = "none"
    /\ polled = "PENDING"
    /\ result = "none"
    /\ trace = <<>>
    /\ srcDur = 0
    /\ timestamps = <<>>
    /\ overlap = FALSE
    /\ separated = FALSE
    /\ segments = <<>>
    /\ speaker_map = <<>>
    /\ chunks = <<>>
    /\ speaker_final_gender = <<>>
    /\ units = <<>>
    /\ stage2_results = <<>>
    /\ segment_artifacts = <<>>
    /\ track = -1
    /\ voteSamples = <<>>
    /\ voteCanon = <<>>
    /\ segment_audio = "none"
    /\ jobs = <<>>
    /\ files = {}
    /\ response = NoResponse
    /\ AuxIdle
    /\ target_lang = Target

\* A task of a chain raised: the chain stops and later tasks are never called.
\* The polled task is the last of the chain: depending on the installed Celery
\* it keeps its PENDING state or has the FAILURE state propagated to it.
PropagatedStates == {"PENDING", "FAILURE"}

ChainTaskRaises(stage) ==
    /\ pc' = "end"
    /\ failedStage' = stage
    /\ polled' \in PropagatedStates

TaskAudioSeparator ==
    /\ pc = "task_audio_separator"
    /\ trace' = Append(trace, "extract-audio")
    /\ \/ /\ \E d \in SourceDurations : srcDur' = d
          /\ pc' = "task_diarization"
          /\ UNCHANGED <<failedStage, polled>>
       \/ /\ ChainTaskRaises("extract-audio")
          /\ UNCHANGED srcDur
    /\ UNCHANGED <<entry, segment_audio, result, timestamps, overlap, separated,
                   segments, speaker_map, chunks, speaker_final_gender, units,
                   stage2_results, segment_artifacts, track, video_path, voteVars, pathVars, auxVars>>

\* speaker_diarization: the turns with their speaker labels and overlap flags
\* and the job-level overlap flag, or an exception.
TaskDiarization ==
    /\ pc = "task_diarization"
    /\ trace' = Append(trace, "diarize")
    /\ \/ /\ \E tl \in TurnLists :
                /\ PlannedChunks(tl) <= MaxChunks
                /\ timestamps' = tl
                /\ overlap' = (\E i \in 1..Len(tl) : tl[i].overlap)
          /\ pc' = "task_overlap_split"
          /\ UNCHANGED <<failedStage, polled>>
       \/ /\ ChainTaskRaises("diarize")
          /\ UNCHANGED <<timestamps, overlap>>
    /\ UNCHANGED <<entry, segment_audio, result, srcDur, separated, segments,
                   speaker_map, chunks, speaker_final_gender, units,
                   stage2_results, segment_artifacts, track, video_path, voteVars, pathVars, auxVars>>

\* task_overlap_split: the separation collaborator is invoked only when the
\* job-level flag is set; it may raise AudioSplitError.
\* task_overlap_split without its condition: the separation collaborator is
\* invoked whatever the overlap flag is.
TaskOverlapSplit_Always ==
    /\ pc = "task_overlap_split"
    /\ trace' = Append(trace, "overlap-separate")
    /\ \/ /\ separated' = TRUE
          /\ pc' = "task_segment"
          /\ UNCHANGED <<failedStage, polled>>
       \/ /\ ChainTaskRaises("overlap-separate")
          /\ UNCHANGED separated
    /\ UNCHANGED <<entry, segment_audio, result, srcDur, timestamps, overlap, segments,
                   speaker_map, chunks, speaker_final_gender, units,
                   stage2_results, segment_artifacts, track, video_path, voteVars, pathVars, auxVars>>

TaskOverlapSplit ==
    /\ pc = "task_overlap_split"
    /\ IF overlap
       THEN /\ trace' = Append(trace, "overlap-separate")
            /\ \/ /\ separated' = TRUE
                  /\ pc' = "task_segment"
                  /\ UNCHANGED <<failedStage, polled>>
               \/ /\ ChainTaskRaises("overlap-separate")
                  /\ UNCHANGED separated
       ELSE /\ pc' = "task_segment"
            /\ UNCHANGED <<trace, separated, failedStage, polled>>
    /\ UNCHANGED <<entry, segment_audio, result, srcDur, timestamps, overlap, segments,
                   speaker_map, chunks, speaker_final_gender, units,
                   stage2_results, segment_artifacts, track, video_path, voteVars, pathVars, auxVars>>

\* task_segment: one ffmpeg cut per turn, each of which may fail on all its
\* attempts; the next task depends on the workflow that was built.
TaskSegment ==
    /\ pc = "task_segment"
    /\ trace' = Append(trace, "segment")
    /\ \E cutOk \in [1..Len(timestamps) -> BOOLEAN] :
          segments' = SegmentSeparation(timestamps, cutOk)
    /\ segment_audio' = "audio_path"
    /\ pc' = IF entry = "get_stage1_chain" THEN "task_speaker_analysis"
             ELSE "task_chunk"
    /\ UNCHANGED <<entry, failedStage, polled, result, srcDur, timestamps,
                   overlap, separated, speaker_map, chunks,
                   speaker_final_gender, units, stage2_results,
                   segment_artifacts, track, video_path, voteVars, pathVars, auxVars>>

\* task_speaker_analysis: with no segments the map is empty; otherwise the
\* first speaker's entry is followed by logger.info, and the module defines no
\* name "logger": NameError, caught by "except Exception", whose handler calls
\* logger.error and raises NameError again, out of the task.
SpeakerAnalysisRaises(segs) == segs # <<>>

TaskSpeakerAnalysis ==
    /\ pc = "task_speaker_analysis"
    /\ trace' = Append(trace, "aggregate-speaker-gender")
    /\ IF SpeakerAnalysisRaises(segments)
       THEN /\ ChainTaskRaises("aggregate-speaker-gender")
            /\ UNCHANGED speaker_map
       ELSE /\ speaker_map' = <<>>
            /\ pc' = "task_chunk"
            /\ UNCHANGED <<failedStage, polled>>
    /\ UNCHANGED <<entry, segment_audio, result, srcDur, timestamps, overlap,
                   separated, segments, chunks, speaker_final_gender, units,
                   stage2_results, segment_artifacts, track, video_path, voteVars, pathVars, auxVars>>

\* task_chunk: the last task of get_stage1_chain; followed by process_stage2 in
\* the workflow of _start_pipeline.
TaskChunk ==
    /\ pc = "task_chunk"
    /\ trace' = Append(trace, "split-chunks")
    /\ chunks' = TaskChunkChunks(segments, speaker_map)
    /\ IF entry = "get_stage1_chain"
       THEN /\ pc' = "end"
            /\ polled' = "SUCCESS"
            /\ result' = "diarization_data"
       ELSE /\ pc' = "process_stage2"
            /\ UNCHANGED <<polled, result>>
    /\ video_path' = [video_path EXCEPT !.data = Submitted]
    /\ UNCHANGED <<entry, segment_audio, failedStage, srcDur, timestamps, overlap, separated,
                   segments, speaker_map, speaker_final_gender, units,
                   stage2_results, segment_artifacts, track, voteVars, pathVars, auxVars>>

----------------------------------------------------------------------------
\* process_stage2: speaker-level majority vote

Count(votes, g) == Cardinality({ i \in 1..Len(votes) : votes[i] = g })

\* keys of Counter(votes), in insertion order
RECURSIVE CounterKeys(_)
CounterKeys(votes) ==
    IF votes = <<>> THEN <<>>
    ELSE LET init == CounterKeys(SubSeq(votes, 1, Len(votes) - 1))
             v    == votes[Len(votes)]
         IN  IF \E k \in 1..Len(init) : init[k] = v THEN init ELSE Append(init, v)

\* max(items, key=count): a later key replaces the best one only when its
\* count is strictly larger
RECURSIVE MaxByCount(_, _, _)
MaxByCount(keys, votes, best) ==
    IF keys = <<>> THEN best
    ELSE MaxByCount(Tail(keys), votes,
                    IF Count(votes, Head(keys)) > Count(votes, best)
                    THEN Head(keys) ELSE best)

\* Counter(votes).most_common(1)[0][0]
MostCommon(votes) ==
    MaxByCount(Tail(CounterKeys(votes)), votes, Head(CounterKeys(votes)))

RECURSIVE VotesFrom(_, _, _, _)
VotesFrom(cs, pred, sp, i) ==
    IF i > Len(cs) THEN <<>>
    ELSE (IF cs[i].speaker_no = sp THEN <<pred[i]>> ELSE <<>>)
         \o VotesFrom(cs, pred, sp, i + 1)

SpeakerVotes(cs, pred, sp) == VotesFrom(cs, pred, sp, 1)

SpeakersOf(cs) == { cs[i].speaker_no : i \in 1..Len(cs) }

SpeakerFinalGender(cs, pred) ==
    [ sp \in SpeakersOf(cs) |->
        IF SpeakerVotes(cs, pred, sp) # <<>>
        THEN MostCommon(SpeakerVotes(cs, pred, sp))
        ELSE "male" ]

AssignFinalGender(cs, sfg) ==
    [ i \in 1..Len(cs) |->
        WithGender(cs[i], IF cs[i].speaker_no \in DOMAIN sfg
                          THEN sfg[cs[i].speaker_no] ELSE "male") ]

\* The message that travels along one chunk chain, with the task it waits for.
NewUnit(c) ==
    [ pc |-> "task_gender", gender |-> c.gender, transcript |-> <<>>,
      detected_lang |-> "none", rms |-> "unread", text |-> <<>>, aligned_text |-> <<>>,
      stt_calls |-> 0, translate_calls |-> 0, tts_calls |-> 0,
      audio_path |-> "unset", audio_dur |-> 0,
      start_time |-> c.start_time, end_time |-> c.end_time,
      speaker_no |-> c.speaker_no, overlap |-> c.overlap ]

\* process_stage3's signature bound to a path of the worker's own choosing
BindVideoPath_Fixed(vp) == [vp EXCEPT !.arg = "data/uploads/video.mp4"]

\* video_path = stage1_result.get("video_path"), bound into the signature of
\* process_stage3 on either branch
BindVideoPath(vp) == [vp EXCEPT !.arg = vp.data]

\* process_stage2 without its branch for an empty chunk list: the vote and
\* the chord are built whatever the number of chunks.
ProcessStage2_AlwaysFanout ==
    /\ pc = "process_stage2"
    /\ \E pred \in [1..Len(chunks) -> Genders] :
          /\ speaker_final_gender' = SpeakerFinalGender(chunks, pred)
          /\ chunks' = AssignFinalGender(chunks, speaker_final_gender')
    /\ units' = [ i \in 1..Len(chunks) |-> NewUnit(chunks'[i]) ]
    /\ trace' = trace \o <<"aggregate-speaker-gender", "chunk-fan-out">>
    /\ pc' = "fanout"
    /\ video_path' = BindVideoPath(video_path)
    /\ UNCHANGED <<entry, segment_audio, failedStage, polled, result, srcDur, timestamps,
                   overlap, separated, segments, speaker_map, stage2_results,
                   segment_artifacts, track, voteVars, pathVars, auxVars>>

\* process_stage2 replaces itself: with no chunks by process_stage3([]) |
\* process_stage4, otherwise by chord(chunk chains, process_stage3 | process_stage4);
\* either signature of process_stage3 is bound to stage1_result's video path.
ProcessStage2 ==
    /\ pc = "process_stage2"
    /\ IF chunks = <<>>
       THEN /\ pc' = "process_stage3"
            /\ UNCHANGED <<trace, chunks, speaker_final_gender, units>>
       ELSE /\ \E pred \in [1..Len(chunks) -> Genders] :
                  /\ speaker_final_gender' = SpeakerFinalGender(chunks, pred)
                  /\ chunks' = AssignFinalGender(chunks, speaker_final_gender')
            /\ units' = [ i \in 1..Len(chunks) |-> NewUnit(chunks'[i]) ]
            /\ trace' = trace \o <<"aggregate-speaker-gender", "chunk-fan-out">>
            /\ pc' = "fanout"
    /\ video_path' = BindVideoPath(video_path)
    /\ UNCHANGED <<entry, segment_audio, failedStage, polled, result, srcDur, timestamps,
                   overlap, separated, segments, speaker_map, stage2_results,
                   segment_artifacts, track, voteVars, pathVars, auxVars>>

----------------------------------------------------------------------------
\* The chunk chain: task_gender | task_stt | task_align | task_tts

\* A text is a sequence of tokens: 0 is a one-character token without a
\* letter or digit, 1 a one-letter word, a larger number a longer word.
UnitStep(i, u) ==
    /\ units' = [units EXCEPT ![i] = u]
    /\ UNCHANGED <<entry, segment_audio, pc, failedStage, polled, result, trace, srcDur,
                   timestamps, overlap, separated, segments, speaker_map,
                   chunks, speaker_final_gender, stage2_results,
                   segment_artifacts, track, video_path, voteVars, pathVars, auxVars>>

\* task_gender: a pre-assigned gender other than "unknown" is kept; otherwise
\* the chunk is classified afresh and the answer, whatever it is, is stored;
\* an exception of the classifier gives "male".
GenderIsPreassigned(g) == g # "unknown"

ClassifierAnswers == Genders \cup {"error"}

FreshGender(answer) == IF answer = "error" THEN "male" ELSE answer

TaskGender(i) ==
    /\ pc = "fanout"
    /\ units[i].pc = "task_gender"
    /\ IF GenderIsPreassigned(units[i].gender)
       THEN UnitStep(i, [units[i] EXCEPT !.pc = "task_stt"])
       ELSE \E a \in ClassifierAnswers :
               UnitStep(i, [units[i] EXCEPT !.pc = "task_stt",
                                            !.gender = FreshGender(a)])

SttMinDuration == 5000

MaxRetries == 3

AttemptOutcomes == {"200", "500", "error"}

Responses == [1..MaxRetries -> AttemptOutcomes]

\* the retry loops: the number of requests made until the first 200 answer
RECURSIVE FirstOk(_, _)
FirstOk(resp, k) ==
    IF k > MaxRetries THEN 0
    ELSE IF resp[k] = "200" THEN k ELSE FirstOk(resp, k + 1)

Translated(text) ==
    [ k \in 1..Len(text) |-> IF text[k] >= 1 THEN text[k] + 100 ELSE text[k] ]

\* sarvam_translate: the translation of the first 200 answer, the input text
\* when every attempt failed
SarvamTranslate(text, tresp) ==
    IF FirstOk(tresp, 1) > 0
    THEN [ text |-> Translated(text), calls |-> FirstOk(tresp, 1) ]
    ELSE [ text |-> text, calls |-> MaxRetries ]

TokenLen(w) == IF w <= 1 THEN 1 ELSE 4

CharLen(text) ==
    IF text = <<>> THEN 0
    ELSE SeqSum([ k \in 1..Len(text) |-> TokenLen(text[k]) ]) + Len(text) - 1

DetectedLangs == {"en", "hi", "unknown"}

\* LanguageIdentifier.identify without a hint
Identify(text, guess) == IF CharLen(text) < 3 THEN "unknown" ELSE guess

\* TranslationDecision.get_decision: noise is a text without a letter of the
\* Latin or Indic scripts, or of fewer than 2 characters.
IsNoise(text) == ~(\E k \in 1..Len(text) : text[k] >= 1) \/ CharLen(text) < 2

GetDecision(text, detected_lang) ==
    IF IsNoise(text) \/ detected_lang = Target THEN "KEEP" ELSE "TRANSLATE"

RmsChecks == {"silent", "loud", "unreadable"}

LongTranscript == <<7, 3, 9, 4, 8, 2, 6, 5, 11, 10, 13, 12>>

Transcripts == {<<>>, <<0>>, <<1>>, <<0, 0>>, <<4, 2>>, LongTranscript}

SttSkipped(u) ==
    [u EXCEPT !.pc = "task_align", !.text = <<>>]

SttSilent(u) ==
    [u EXCEPT !.pc = "task_align", !.text = <<>>, !.rms = "silent"]

SttRaised(u, rms, calls) ==
    [u EXCEPT !.pc = "failed", !.rms = rms, !.stt_calls = calls]

\* speech_to_text without its silence filter
SpeechToText_NoSilenceFilter(u, env) ==
    IF u.end_time - u.start_time < SttMinDuration THEN SttSkipped(u)
    ELSE IF FirstOk(env.resp, 1) = 0 THEN SttRaised(u, env.rms, MaxRetries)
    ELSE LET det == Identify(env.transcript, env.guess)
             tr  == IF det = Target
                    THEN [ text |-> env.transcript, calls |-> 0 ]
                    ELSE SarvamTranslate(env.transcript, env.tresp)
         IN  [u EXCEPT !.pc = "task_align",
                       !.rms = env.rms,
                       !.transcript = env.transcript,
                       !.detected_lang = det,
                       !.text = tr.text,
                       !.stt_calls = FirstOk(env.resp, 1),
                       !.translate_calls = tr.calls]

\* speech_to_text: skipped below 0.5 s or for silent audio; otherwise the
\* transcript of the first 200 answer, translated unless the detected
\* language is the target, or the exception of the last attempt.
SpeechToText(u, env) ==
    IF u.end_time - u.start_time < SttMinDuration THEN SttSkipped(u)
    ELSE IF env.rms = "silent" THEN SttSilent(u)
    ELSE IF FirstOk(env.resp, 1) = 0 THEN SttRaised(u, env.rms, MaxRetries)
    ELSE LET det == Identify(env.transcript, env.guess)
             tr  == IF det = Target
                    THEN [ text |-> env.transcript, calls |-> 0 ]
                    ELSE SarvamTranslate(env.transcript, env.tresp)
         IN  [u EXCEPT !.pc = "task_align",
                       !.rms = env.rms,
                       !.transcript = env.transcript,
                       !.detected_lang = det,
                       !.text = tr.text,
                       !.stt_calls = FirstOk(env.resp, 1),
                       !.translate_calls = tr.calls]

SttEnvs ==
    [ rms : RmsChecks, resp : Responses, transcript : Transcripts,
      guess : DetectedLangs, tresp : Responses ]

AllOutcome(o) == [ k \in 1..MaxRetries |-> o ]

\* the collaborator behaviours the workflow model distinguishes: a silent
\* chunk, a transcript in the target language, a service that is down
SttEnv(rms, resp, transcript, guess, tresp) ==
    [ rms |-> rms, resp |-> resp, transcript |-> transcript, guess |-> guess,
      tresp |-> tresp ]

WorkflowSttEnvs ==
    { SttEnv("silent", AllOutcome("200"), LongTranscript, Target, AllOutcome("200")),
      SttEnv("loud", AllOutcome("200"), LongTranscript, Target, AllOutcome("200")),
      SttEnv("loud", AllOutcome("500"), LongTranscript, Target, AllOutcome("200")) }

TaskSttIn(i, envs) ==
    /\ pc = "fanout"
    /\ units[i].pc = "task_stt"
    /\ \E env \in envs : UnitStep(i, SpeechToText(units[i], env))

TaskStt(i) == TaskSttIn(i, WorkflowSttEnvs)

\* translation_matcher: the first floor(D * R) tokens of the text, the
\* placeholder when the budget is zero.
WordsPerSecond == 3

PlaceholderText == <<0>>

WordBudget(d) == (d * WordsPerSecond) \div 10000

\* translation_matcher without the substitution for a budget of zero
TranslationMatcher_NoPlaceholder(text, start, end) ==
    SubSeq(text, 1, Min(Len(text), WordBudget(end - start)))

TranslationMatcher(text, start, end) ==
    IF WordBudget(end - start) = 0 THEN PlaceholderText
    ELSE SubSeq(text, 1, Min(Len(text), WordBudget(end - start)))

\* variant: the untranslated transcript is aligned instead of the text
TaskAlign_Transcript(i) ==
    /\ pc = "fanout"
    /\ units[i].pc = "task_align"
    /\ UnitStep(i, [units[i] EXCEPT
                       !.pc = "task_tts",
                       !.aligned_text = TranslationMatcher(units[i].transcript,
                                            units[i].start_time, units[i].end_time)])

TaskAlign(i) ==
    /\ pc = "fanout"
    /\ units[i].pc = "task_align"
    /\ UnitStep(i, [units[i] EXCEPT
                       !.pc = "task_tts",
                       !.aligned_text = TranslationMatcher(units[i].text,
                                            units[i].start_time, units[i].end_time)])

\* text_to_speech: the atempo chain built from speed = tts_dur / orig_dur
RoundDiv(a, b) == (2 * a + b) \div (2 * b)

RECURSIVE StretchFilters(_, _)
StretchFilters(num, den) ==
    IF num > 2 * den THEN <<2000>> \o StretchFilters(num, 2 * den)
    ELSE IF 2 * num < den THEN <<500>> \o StretchFilters(2 * num, den)
    ELSE IF num # den THEN <<RoundDiv(num * 1000, den)>>
    ELSE <<>>

RECURSIVE ApplyFilters(_, _)
ApplyFilters(dur, fs) ==
    IF fs = <<>> THEN dur
    ELSE ApplyFilters(RoundDiv(dur * 1000, Head(fs)), Tail(fs))

OrigDur(start, end) == IF end - start <= 0 THEN 1000 ELSE end - start

\* duration of the file whose path text_to_speech returns
SyncedDuration(tts_dur, start, end, ffmpegOk) ==
    LET fs == StretchFilters(tts_dur, OrigDur(start, end))
    IN  IF fs # <<>> /\ ffmpegOk THEN ApplyFilters(tts_dur, fs) ELSE tts_dur

\* durations the synthesis collaborator may produce for a window
RawDurs(d) == {d, d + 20, 3 * d}

\* clean_text: the letters and digits of the aligned text
HasAlnum(text) == \E k \in 1..Len(text) : text[k] >= 1

TtsNoText(u) ==
    [u EXCEPT !.pc = "done", !.audio_path = "None",
              !.start_time = Round2(u.start_time), !.end_time = Round2(u.end_time)]

TtsException(u) ==
    [u EXCEPT !.pc = "done", !.audio_path = "None", !.tts_calls = 1]

TtsAudio(u, dur) ==
    [u EXCEPT !.pc = "done", !.audio_path = "wav", !.audio_dur = dur,
              !.tts_calls = 1,
              !.start_time = Round2(u.start_time), !.end_time = Round2(u.end_time)]

\* requests.post carries no timeout: a service that never answers leaves the
\* task inside the call
TtsBlocked(u) == [u EXCEPT !.pc = "blocked", !.tts_calls = 1]

TtsAnswers == {"audio", "non200", "no_audio", "error", "no_answer"}

TextToSpeech(u, answer, raw, ffmpegOk) ==
    IF ~HasAlnum(u.aligned_text) THEN TtsNoText(u)
    ELSE IF answer = "no_answer" THEN TtsBlocked(u)
    ELSE IF answer = "audio"
         THEN TtsAudio(u, SyncedDuration(raw, u.start_time, u.end_time, ffmpegOk))
    ELSE TtsException(u)

TtsEnv(answer, raw, ffmpegOk) ==
    [ answer |-> answer, raw |-> raw, ffmpegOk |-> ffmpegOk ]

\* the behaviours of the synthesis service and of ffmpeg for a window d
TtsEnvs(d) ==
    { TtsEnv("audio", raw, ok) : raw \in RawDurs(d), ok \in BOOLEAN }
    \cup { TtsEnv(a, d, TRUE) : a \in TtsAnswers \ {"audio"} }

TaskTts(i) ==
    /\ pc = "fanout"
    /\ units[i].pc = "task_tts"
    /\ \E env \in TtsEnvs(units[i].end_time - units[i].start_time) :
          UnitStep(i, TextToSpeech(units[i], env.answer, env.raw, env.ffmpegOk))

----------------------------------------------------------------------------
\* The chord: the body is called once every header chain has succeeded, with
\* the results in header order; a failed header chain makes the chord fail.

UnitFinished(u) == u.pc \in {"done", "failed"}

\* variant: the body is called as soon as one header chain has succeeded
ChordReady_AnyDone(us) == \E i \in 1..Len(us) : us[i].pc = "done"

ChordReady(us) == \A i \in 1..Len(us) : us[i].pc = "done"

ChunkResult(u) ==
    [ audio_path |-> u.audio_path, audio_dur |-> u.audio_dur,
      start_time |-> u.start_time, end_time |-> u.end_time,
      speaker_no |-> u.speaker_no, overlap |-> u.overlap ]

ChordResults(us) == [ i \in 1..Len(us) |-> ChunkResult(us[i]) ]

\* A header chain failed: the body is never called; whether the error reaches
\* the polled task (the last task of the body) depends on the installed Celery.
ChordError ==
    /\ pc = "fanout"
    /\ \A i \in 1..Len(units) : UnitFinished(units[i])
    /\ \E i \in 1..Len(units) : units[i].pc = "failed"
    /\ pc' = "end"
    /\ failedStage' = "chunk-fan-out"
    /\ polled' \in PropagatedStates
    /\ UNCHANGED <<entry, segment_audio, result, trace, srcDur, timestamps, overlap, separated,
                   segments, speaker_map, chunks, speaker_final_gender, units,
                   stage2_results, segment_artifacts, track, video_path, voteVars, pathVars, auxVars>>

----------------------------------------------------------------------------
\* Reassembly: ChunkingManager.chunk_to_segments and final_audio_connect

RECURSIVE InsertByStart(_, _)
InsertByStart(x, s) ==
    IF s = <<>> THEN <<x>>
    ELSE IF x.start_time < Head(s).start_time THEN <<x>> \o s
    ELSE <<Head(s)>> \o InsertByStart(x, Tail(s))

\* variant: the results are taken in the order they arrive in
SortByStart_Unsorted(s) == s

RECURSIVE SortByStart(_)
SortByStart(s) ==
    IF s = <<>> THEN <<>>
    ELSE InsertByStart(s[Len(s)], SortByStart(SubSeq(s, 1, Len(s) - 1)))

\* what one chunk result contributes to its segment: its audio, or silence
\* spanning its [start, end] when the audio path is null
PieceDuration(r) ==
    IF r.audio_path = "None" THEN r.end_time - r.start_time ELSE r.audio_dur

RECURSIVE ResultsOfSegment(_, _, _, _)
ResultsOfSegment(rs, cs, sid, i) ==
    IF i > Len(rs) THEN <<>>
    ELSE (IF cs[i].segment_id = sid THEN <<rs[i]>> ELSE <<>>)
         \o ResultsOfSegment(rs, cs, sid, i + 1)

SegmentArtifact(rs, cs, sid) ==
    LET pieces == SortByStart(ResultsOfSegment(rs, cs, sid, 1))
    IN  [ segment_id |-> sid,
          pieces     |-> pieces,
          start_time |-> pieces[1].start_time,
          end_time   |-> pieces[Len(pieces)].end_time,
          duration   |-> SeqSum([ k \in 1..Len(pieces) |-> PieceDuration(pieces[k]) ]) ]

RECURSIVE ArtifactsFrom(_, _, _, _)
ArtifactsFrom(rs, cs, sid, maxId) ==
    IF sid > maxId THEN <<>>
    ELSE (IF \E i \in 1..Len(cs) : cs[i].segment_id = sid
          THEN <<SegmentArtifact(rs, cs, sid)>> ELSE <<>>)
         \o ArtifactsFrom(rs, cs, sid + 1, maxId)

\* the result at position i of the chord is the result of chunk i
ChunkToSegments(rs, cs) == ArtifactsFrom(rs, cs, 0, Len(cs))

\* silence for the gap before each segment, then the segment
RECURSIVE ConnectFrom(_, _)
ConnectFrom(arts, prevEnd) ==
    IF arts = <<>> THEN 0
    ELSE Max(0, Head(arts).start_time - prevEnd) + Head(arts).duration
         + ConnectFrom(Tail(arts), Head(arts).end_time)

FinalAudioConnect(arts) == ConnectFrom(SortByStart(arts), 0)

\* process_stage3, the body of the chord; an exception of the media tool is
\* logged and raised again, and process_stage4 is then never called.
ProcessStage3 ==
    /\ pc \in {"fanout", "process_stage3"}
    /\ pc = "fanout" => ChordReady(units)
    /\ stage2_results' = ChordResults(units)
    /\ \/ /\ segment_artifacts' = ChunkToSegments(stage2_results', chunks)
          /\ track' = FinalAudioConnect(segment_artifacts')
          /\ trace' = trace \o <<"reassemble-segments", "reassemble-track">>
          /\ pc' = "process_stage4"
          /\ UNCHANGED <<failedStage, polled>>
       \/ /\ trace' = Append(trace, "reassemble-segments")
          /\ ChainTaskRaises("reassemble-segments")
          /\ UNCHANGED <<segment_artifacts, track>>
    /\ UNCHANGED <<entry, segment_audio, result, srcDur, timestamps, overlap,
                   separated, segments, speaker_map, chunks,
                   speaker_final_gender, units, video_path, voteVars, pathVars, auxVars>>

\* the dict process_stage4 returns; stage3's result has no "job_id", so the
\* default is reported
Stage4Result(status) ==
    IF status = "stage4_complete"
    THEN [ status |-> status, final_video_path |-> "final_video.mp4",
           job_id |-> "default" ]
    ELSE [ status |-> status, error |-> "error" ]

\* process_stage4: an exception of the mux is caught and returned as a value,
\* so the task itself succeeds either way.
ProcessStage4 ==
    /\ pc = "process_stage4"
    /\ trace' = Append(trace, "mux-with-video")
    /\ pc' = "end"
    /\ polled' = "SUCCESS"
    /\ \/ /\ result' = "stage4_complete"
          /\ UNCHANGED failedStage
       \/ /\ result' = "stage4_failed"
          /\ failedStage' = "mux-with-video"
    /\ video_path' = [video_path EXCEPT !.mux = video_path.arg]
    /\ UNCHANGED <<entry, segment_audio, srcDur, timestamps, overlap, separated, segments,
                   speaker_map, chunks, speaker_final_gender, units,
                   stage2_results, segment_artifacts, track, voteVars, pathVars, auxVars>>

----------------------------------------------------------------------------

Next ==
    \/ TaskAudioSeparator
    \/ TaskDiarization
    \/ TaskOverlapSplit
    \/ TaskSegment
    \/ TaskSpeakerAnalysis
    \/ TaskChunk
    \/ ProcessStage2
    \/ \E i \in 1..Len(units) : TaskGender(i)
    \/ \E i \in 1..Len(units) : TaskStt(i)
    \/ \E i \in 1..Len(units) : TaskAlign(i)
    \/ \E i \in 1..Len(units) : TaskTts(i)
    \/ ChordError
    \/ ProcessStage3
    \/ ProcessStage4

Spec == Init /\ [][Next]_vars

\* The workers take every task that is ready: a step that stays possible is
\* eventually taken.
SpecLive == Init /\ [][Next]_vars /\ WF_vars(Next)

----------------------------------------------------------------------------
\* The majority vote of process_stage2 on its own: one classifier answer
\* (gender, confidence in percent) per chunk, in chunk order.

VoteSpeakers == {"A", "B"}

PredictOutcomes ==
    { [gender |-> "male", confidence |-> 60],
      [gender |-> "male", confidence |-> 90],
      [gender |-> "female", confidence |-> 60],
      [gender |-> "female", confidence |-> 90],
      [gender |-> "unknown", confidence |-> 0],
      [gender |-> "unknown", confidence |-> 40] }

VoteSample == [speaker_no : VoteSpeakers, res : PredictOutcomes]

VoteInit ==
    /\ voteSamples \in UNION { [1..n -> VoteSample] : n \in 1..MaxVotes }
    /\ voteCanon = <<>>
    /\ segment_audio = "none"
    /\ jobs = <<>>
    /\ files = {}
    /\ response = NoResponse
    /\ AuxIdle
    /\ target_lang = Target
    /\ entry = "vote"
    /\ pc = "vote"
    /\ failedStage = "none"
    /\ polled = "PENDING"
    /\ result = "none"
    /\ trace = <<>>
    /\ srcDur = 0
    /\ timestamps = <<>>
    /\ overlap = FALSE
    /\ separated = FALSE
    /\ segments = <<>>
    /\ speaker_map = <<>>
    /\ chunks = <<>>
    /\ speaker_final_gender = <<>>
    /\ units = <<>>
    /\ stage2_results = <<>>
    /\ segment_artifacts = <<>>
    /\ track = -1

PredictedGenders(samples) == [ i \in 1..Len(samples) |-> samples[i].res.gender ]

MajorityVote ==
    /\ pc = "vote"
    /\ voteCanon = <<>>
    /\ voteCanon' = SpeakerFinalGender(voteSamples, PredictedGenders(voteSamples))
    /\ UNCHANGED <<voteSamples, pipeVars, pathVars, auxVars>>

VoteNext == MajorityVote

SpecVote == VoteInit /\ [][VoteNext]_vars

----------------------------------------------------------------------------
\* One chunk chain on its own, with every behaviour of its collaborators.

Windows ==
    { <<0, 50000>>, <<69040, 119040>>, <<119040, 123090>>, <<100000, 102000>>,
      <<100000, 108000>> }

WorkerChunks ==
    { WithGender(ChunkSeparation(1, w[1], w[2], "A", ov, 0)[1], g) :
        w \in Windows, ov \in BOOLEAN, g \in Genders }

WorkerInit ==
    /\ entry = "chunk_chain"
    /\ pc = "fanout"
    /\ failedStage = "none"
    /\ polled = "PENDING"
    /\ result = "none"
    /\ trace = <<>>
    /\ srcDur = 0
    /\ timestamps = <<>>
    /\ overlap = FALSE
    /\ separated = FALSE
    /\ segments = <<>>
    /\ speaker_map = <<>>
    /\ \E c \in WorkerChunks :
          /\ chunks = <<c>>
          /\ units = <<NewUnit(c)>>
    /\ speaker_final_gender = <<>>
    /\ stage2_results = <<>>
    /\ segment_artifacts = <<>>
    /\ track = -1
    /\ voteSamples = <<>>
    /\ voteCanon = <<>>
    /\ segment_audio = "none"
    /\ jobs = <<>>
    /\ files = {}
    /\ response = NoResponse
    /\ AuxIdle
    /\ target_lang \in SubmittedTargets

WorkerNext ==
    \/ TaskGender(1)
    \/ TaskSttIn(1, SttEnvs)
    \/ TaskAlign(1)
    \/ TaskTts(1)

SpecWorker == WorkerInit /\ [][WorkerNext]_vars

----------------------------------------------------------------------------
\* The artifact paths of jobs that run at the same time. A path is the tuple
\* of its directory and the parts of its file name.

MaxJobs == 2

MaxSegmentFiles == 1

FileNames == {"a.mp4", "b.mp4"}

PathInit ==
    /\ entry = "paths"
    /\ pc = "paths"
    /\ failedStage = "none"
    /\ polled = "PENDING"
    /\ result = "none"
    /\ trace = <<>>
    /\ srcDur = 0
    /\ timestamps = <<>>
    /\ overlap = FALSE
    /\ separated = FALSE
    /\ segments = <<>>
    /\ speaker_map = <<>>
    /\ chunks = <<>>
    /\ units = <<>>
    /\ speaker_final_gender = <<>>
    /\ stage2_results = <<>>
    /\ segment_artifacts = <<>>
    /\ track = -1
    /\ voteSamples = <<>>
    /\ voteCanon = <<>>
    /\ segment_audio = "none"
    /\ jobs = <<>>
    /\ files = {}
    /\ response = NoResponse
    /\ AuxIdle
    /\ target_lang = Target

Writes(j, paths) == { [ path |-> q, job |-> j ] : q \in paths }

JobStep(j, next, paths) ==
    /\ jobs' = [jobs EXCEPT ![j].pc = next]
    /\ files' = files \cup Writes(j, paths)
    /\ UNCHANGED <<pipeVars, voteVars, response, auxVars>>

\* upload_video: the upload is stored under the client's file name
UploadVideo ==
    /\ pc = "paths"
    /\ Len(jobs) < MaxJobs
    /\ \E name \in FileNames :
          /\ jobs' = Append(jobs, [ pc |-> "task_segment",
                                    file_location |-> <<"data/uploads", name>>,
                                    speakers |-> <<>> ])
          /\ files' = files \cup Writes(Len(jobs) + 1, {<<"data/uploads", name>>})
    /\ UNCHANGED <<pipeVars, voteVars, response, auxVars>>

\* segment_separation: seg_{idx:04d}_{speaker}.wav in the default directory
SegmentOutfiles(speakers) ==
    { <<"segments", idx - 1, speakers[idx]>> : idx \in 1..Len(speakers) }

PathSegment(j) ==
    /\ jobs[j].pc = "task_segment"
    /\ \E n \in 1..MaxSegmentFiles : \E speakers \in [1..n -> {"A", "B"}] :
          /\ jobs' = [jobs EXCEPT ![j].pc = "task_tts", ![j].speakers = speakers]
          /\ files' = files \cup Writes(j, SegmentOutfiles(speakers))
    /\ UNCHANGED <<pipeVars, voteVars, response, auxVars>>

\* uuid.uuid4(): a value no earlier call has returned
FreshUuid == Cardinality({ f \in files : f.path[1] = "tts_chunks" }) + 1

\* text_to_speech: {speaker_no}_{uuid}.wav in the default directory, for
\* the chunk of the job's first segment
PathTts(j) ==
    /\ jobs[j].pc = "task_tts"
    /\ JobStep(j, "process_stage3",
               {<<"tts_chunks", jobs[j].speakers[1], FreshUuid>>})

PathStage3(j) ==
    /\ jobs[j].pc = "process_stage3"
    /\ JobStep(j, "process_stage4", {<<"data/outputs", "final_audio.wav">>})

PathStage4(j) ==
    /\ jobs[j].pc = "process_stage4"
    /\ JobStep(j, "end", {<<"data/outputs", "final_video.mp4">>})

\* download_file: the file of that name in data/outputs is returned if it
\* exists, whoever asks and whichever jobs wrote it; 404 otherwise. The name
\* asked for is the one process_stage4 reports, final_video.mp4. One request
\* is followed in a behaviour.
FinalVideoWriters ==
    { f.job : f \in { g \in files : g.path = <<"data/outputs", "final_video.mp4">> } }

DownloadFile(j) ==
    /\ pc = "paths"
    /\ response = NoResponse
    /\ response' = [ status   |-> IF FinalVideoWriters # {} THEN 200 ELSE 404,
                     writers  |-> FinalVideoWriters,
                     asker    |-> j,
                     asker_pc |-> jobs[j].pc ]
    /\ UNCHANGED <<pipeVars, voteVars, jobs, files, auxVars>>

PathNext ==
    \/ UploadVideo
    \/ \E j \in 1..Len(jobs) : PathSegment(j)
    \/ \E j \in 1..Len(jobs) : PathTts(j)
    \/ \E j \in 1..Len(jobs) : PathStage3(j)
    \/ \E j \in 1..Len(jobs) : PathStage4(j)
    \/ \E j \in 1..Len(jobs) : DownloadFile(j)

SpecPaths == PathInit /\ [][PathNext]_vars

----------------------------------------------------------------------------
\* CombinedTranslator.translate_batch. A text is a sequence of tokens as
\* above, with -1 for a blank and a token below -1 for a structural tag
\* such as <S:01|G:Male>.

MaxBatch == 2

\* every pipeline and vote variable at rest, for the specifications of one
\* function
Idle(e) ==
    /\ entry = e
    /\ pc = e
    /\ failedStage = "none"
    /\ polled = "PENDING"
    /\ result = "none"
    /\ trace = <<>>
    /\ srcDur = 0
    /\ timestamps = <<>>
    /\ overlap = FALSE
    /\ separated = FALSE
    /\ segments = <<>>
    /\ speaker_map = <<>>
    /\ chunks = <<>>
    /\ units = <<>>
    /\ speaker_final_gender = <<>>
    /\ stage2_results = <<>>
    /\ segment_artifacts = <<>>
    /\ track = -1
    /\ voteSamples = <<>>
    /\ voteCanon = <<>>
    /\ segment_audio = "none"
    /\ jobs = <<>>
    /\ files = {}
    /\ response = NoResponse
    /\ target_lang = Target
    /\ video_path = NoVideoPath

Blank == -1

IsTag(token) == token < Blank

SubtitleTexts ==
    { <<>>, <<4>>, <<-2, Blank, 4>>, <<-2, 4>>, <<-3, Blank, 4, Blank, 2>>,
      <<-2>>, <<Blank, -2, Blank, 4>>, <<-2, Blank, -2, Blank, 4>>,
      <<-2, Blank, 0, Blank>> }

RECURSIVE LStrip(_)
LStrip(text) ==
    IF text # <<>> /\ text[1] = Blank THEN LStrip(Tail(text)) ELSE text

RECURSIVE RStrip(_)
RStrip(text) ==
    IF text # <<>> /\ text[Len(text)] = Blank
    THEN RStrip(SubSeq(text, 1, Len(text) - 1))
    ELSE text

\* str.strip()
Strip(text) == RStrip(LStrip(text))

\* translate_batch without the split: the whole text goes to the backend
ShieldTag_Whole(text) == [ tag |-> <<>>, text |-> Strip(text) ]

\* re.search(r'(<S:.*?\|G:.*?>)?(.*)', sub.text, re.DOTALL): the match
\* starts at the first character, group 1 is the tag found there or nothing
ShieldTag(text) ==
    IF text # <<>> /\ IsTag(text[1])
    THEN [ tag |-> <<text[1]>>, text |-> Strip(Tail(text)) ]
    ELSE [ tag |-> <<>>, text |-> Strip(text) ]

\* f"{tag} {translated}".strip()
Attach(tag, translated) == Strip(tag \o <<Blank>> \o translated)

\* model_manager: absent, a local model that answers, or one that raises
LocalModels == {"none", "ok", "raises"}

\* call_google: the translation, or the text itself after any exception
CallGoogle(text, ok) == IF ok THEN Translated(text) ELSE text

GoogleFallback(texts, tags, oks) ==
    [ i \in 1..Len(texts) |-> Attach(tags[i], CallGoogle(texts[i], oks[i])) ]

TranslateInit ==
    /\ Idle("translate_batch")
    /\ \E n \in 0..MaxBatch : subtitles \in [1..n -> SubtitleTexts]
    /\ handed = <<>>
    /\ final_subs = <<>>
    /\ retry = NoRetry
    /\ mux = NoMux
    /\ stretch = NoStretch
    /\ separation = NoSeparation

TranslateBatch ==
    /\ pc = "translate_batch"
    /\ \E local \in LocalModels, oks \in [1..Len(subtitles) -> BOOLEAN] :
          LET shielded == [ i \in 1..Len(subtitles) |-> ShieldTag(subtitles[i]) ]
              tags  == [ i \in 1..Len(subtitles) |-> shielded[i].tag ]
              texts == [ i \in 1..Len(subtitles) |-> shielded[i].text ]
          IN  /\ handed' = (IF local = "none" THEN <<>> ELSE texts)
                             \o (IF local = "ok" THEN <<>> ELSE texts)
              /\ final_subs' =
                    IF local = "ok"
                    THEN [ i \in 1..Len(texts) |-> Attach(tags[i], Translated(texts[i])) ]
                    ELSE GoogleFallback(texts, tags, oks)
    /\ pc' = "end"
    /\ UNCHANGED <<entry, failedStage, polled, result, trace, srcDur,
                   timestamps, overlap, separated, segments, speaker_map,
                   chunks, speaker_final_gender, units, stage2_results,
                   segment_artifacts, track, segment_audio, voteVars,
                   pathVars, subtitles, retry, mux, target_lang, stretch, separation,
                   video_path>>

TranslateNext == TranslateBatch

SpecTranslate == TranslateInit /\ [][TranslateNext]_vars

----------------------------------------------------------------------------
\* task_align called on any transcription result: a chunk of any window with
\* any text.

AlignTexts == Transcripts \cup { Translated(t) : t \in Transcripts }

AlignInit ==
    /\ entry = "task_align"
    /\ pc = "fanout"
    /\ failedStage = "none"
    /\ polled = "PENDING"
    /\ result = "none"
    /\ trace = <<>>
    /\ srcDur = 0
    /\ timestamps = <<>>
    /\ overlap = FALSE
    /\ separated = FALSE
    /\ segments = <<>>
    /\ speaker_map = <<>>
    /\ \E c \in WorkerChunks, t \in AlignTexts :
          /\ chunks = <<c>>
          /\ units = <<[NewUnit(c) EXCEPT !.pc = "task_align", !.text = t]>>
    /\ speaker_final_gender = <<>>
    /\ stage2_results = <<>>
    /\ segment_artifacts = <<>>
    /\ track = -1
    /\ voteSamples = <<>>
    /\ voteCanon = <<>>
    /\ segment_audio = "none"
    /\ jobs = <<>>
    /\ files = {}
    /\ response = NoResponse
    /\ AuxIdle
    /\ target_lang = Target

AlignNext == TaskAlign(1)

SpecAlign == AlignInit /\ [][AlignNext]_vars

----------------------------------------------------------------------------
\* The retry loops of speech_to_text, sarvam_translate and _run_ffmpeg, one
\* attempt or one wait per step. Waits are in seconds.

RetryCalls == {"stt", "translate", "cut"}

\* retry_delay of the loop; _run_ffmpeg has none
RetryDelay(call) ==
    IF call = "stt" THEN 5 ELSE IF call = "translate" THEN 2 ELSE 0

\* max_retries of the two request loops, retries + 1 of _run_ffmpeg
RetryLimit(call) == IF call = "cut" THEN 2 + 1 ELSE MaxRetries

\* what one attempt can give: a status code or an exception of requests.post,
\* the exit of ffmpeg or an exception other than CalledProcessError
RetryOutcomes(call) ==
    IF call = "cut" THEN {"ok", "CalledProcessError", "OSError"}
    ELSE {"200", "500", "timeout", "error"}

RetrySucceeded(o) == o \in {"200", "ok"}

\* every request loop ending as the loop of speech_to_text does: the
\* exception of the last attempt is raised
AfterAttempt_RaiseWhenExhausted(call, n, o) ==
    IF RetrySucceeded(o) THEN "done"
    ELSE IF call = "cut"
         THEN (IF o = "OSError" THEN "raised"
               ELSE IF n < RetryLimit(call) THEN "attempt" ELSE "gave_up")
    ELSE IF n < RetryLimit(call) THEN "sleep"
    ELSE "raised"

\* where the loop goes after attempt n gave outcome o
AfterAttempt(call, n, o) ==
    IF RetrySucceeded(o) THEN "done"
    ELSE IF call = "cut"
         THEN (IF o = "OSError" THEN "raised"
               ELSE IF n < RetryLimit(call) THEN "attempt" ELSE "gave_up")
    ELSE IF n < RetryLimit(call) THEN "sleep"
    ELSE IF call = "stt" THEN "raised" ELSE "gave_up"

\* what the call returns once its loop is over: the field of the 200 answer
\* or the result of the cut, and after the last failed attempt the input
\* text of sarvam_translate or False of _run_ffmpeg
RetryReturns(call, after) ==
    IF after = "done"
    THEN (IF call = "translate" THEN "translated_text"
          ELSE IF call = "stt" THEN "transcript" ELSE "True")
    ELSE IF after = "gave_up"
    THEN (IF call = "translate" THEN "text" ELSE "False")
    ELSE "none"

RetryInit ==
    /\ Idle("retry")
    /\ subtitles = <<>>
    /\ handed = <<>>
    /\ final_subs = <<>>
    /\ \E call \in RetryCalls :
          retry = [ call |-> call, pc |-> "attempt", attempt |-> 0, log |-> <<>>,
                    returns |-> "none" ]
    /\ mux = NoMux
    /\ stretch = NoStretch
    /\ separation = NoSeparation

RetryAttempt ==
    /\ pc = "retry"
    /\ retry.pc = "attempt"
    /\ \E o \in RetryOutcomes(retry.call) :
          LET n == retry.attempt + 1
          IN  retry' = [retry EXCEPT
                  !.attempt = n,
                  !.pc = AfterAttempt(retry.call, n, o),
                  !.returns = RetryReturns(retry.call, AfterAttempt(retry.call, n, o)),
                  !.log = Append(@, [ ev |-> "attempt", n |-> n, outcome |-> o ])]
    /\ UNCHANGED <<pipeVars, voteVars, pathVars, subtitles, handed, final_subs, mux,
                   target_lang, stretch, separation>>

\* time.sleep(retry_delay * (attempt + 1)), attempt counted from 0
RetrySleep ==
    /\ pc = "retry"
    /\ retry.pc = "sleep"
    /\ retry' = [retry EXCEPT
            !.pc = "attempt",
            !.log = Append(@, [ ev |-> "sleep",
                                n |-> RetryDelay(retry.call) * retry.attempt,
                                outcome |-> "none" ])]
    /\ UNCHANGED <<pipeVars, voteVars, pathVars, subtitles, handed, final_subs, mux,
                   target_lang, stretch, separation>>

RetryNext == RetryAttempt \/ RetrySleep

SpecRetry == RetryInit /\ [][RetryNext]_vars

----------------------------------------------------------------------------
\* The two mergers of a video with a new audio track: VideoAudioMerger.merge
\* (services/media) and AudioVideoMerger.merge_video_audio (services).

Mergers == {"VideoAudioMerger.merge", "AudioVideoMerger.merge_video_audio"}

MuxDurations == {10000, 20000, 30000, 40000, 50000}

\* the options of the ffmpeg command each merger builds
MergeCommand(merger) ==
    {"-map 0:v:0", "-map 1:a:0", "-c:v copy", "-c:a aac"}
    \cup (IF merger = "VideoAudioMerger.merge" THEN {"-shortest"}
          ELSE {"-b:a 192k", "-strict experimental"})

\* what ffmpeg writes for a command: the mapped streams only, the video
\* stream copied, and the length of the shorter stream with -shortest, of the
\* longer one without it
FfmpegMux(command, video_dur, audio_dur) ==
    [ video    |-> IF "-c:v copy" \in command THEN "copied" ELSE "encoded",
      audio    |-> (IF "-map 1:a:0" \in command THEN {"new"} ELSE {"original", "new"}),
      duration |-> IF "-shortest" \in command
                   THEN Min(video_dur, audio_dur)
                   ELSE Max(video_dur, audio_dur) ]

\* subprocess.run(check=True) raises out of merge; merge_video_audio catches
\* every exception and returns None
MergeFailure(merger) ==
    IF merger = "VideoAudioMerger.merge" THEN "raised" ELSE "returned_none"

MuxInit ==
    /\ Idle("merge")
    /\ subtitles = <<>>
    /\ handed = <<>>
    /\ final_subs = <<>>
    /\ retry = NoRetry
    /\ stretch = NoStretch
    /\ separation = NoSeparation
    /\ \E merger \in Mergers, v \in MuxDurations, a \in MuxDurations :
          mux = [ pc |-> "merge", merger |-> merger, video_dur |-> v,
                  audio_dur |-> a, ffmpeg_ok |-> TRUE,
                  out |-> FfmpegMux({}, 0, 0) ]

Merge ==
    /\ pc = "merge"
    /\ mux.pc = "merge"
    /\ \E ok \in BOOLEAN :
          mux' = IF ok
                 THEN [mux EXCEPT !.pc = "returned_output",
                                  !.out = FfmpegMux(MergeCommand(mux.merger),
                                                    mux.video_dur, mux.audio_dur)]
                 ELSE [mux EXCEPT !.pc = MergeFailure(mux.merger),
                                  !.ffmpeg_ok = FALSE]
    /\ UNCHANGED <<pipeVars, voteVars, pathVars, subtitles, handed, final_subs, retry,
                   target_lang, stretch, separation>>

MuxNext == Merge

SpecMux == MuxInit /\ [][MuxNext]_vars

----------------------------------------------------------------------------
\* segment_separation as a function of its arguments: the turns, the number
\* of speaker labels and of overlap flags, and whether the audio file exists.

SeparationTurnPool ==
    << Turn(-500, 30000, "A", FALSE),
       Turn(0, 400, "B", FALSE),
       Turn(1000, 79000, "A", FALSE),
       Turn(30000, 30000, "A", FALSE),
       Turn(70044, 122087, "B", TRUE),
       Turn(79500, 99000, "B", FALSE),
       Turn(101000, 149000, "A", FALSE),
       Turn(161000, 199000, "B", FALSE) >>

SeparationInputs ==
    { [i \in 1..Len(ix) |-> SeparationTurnPool[ix[i]]] :
        ix \in IncreasingIndexSeqs(Len(SeparationTurnPool), MaxTurns) }

ListLengths(n) == {n, n + 1}

SegmentInit ==
    /\ Idle("segment_separation")
    /\ subtitles = <<>>
    /\ handed = <<>>
    /\ final_subs = <<>>
    /\ retry = NoRetry
    /\ mux = NoMux
    /\ stretch = NoStretch
    /\ \E ts \in SeparationInputs, exists \in BOOLEAN :
       \E labels \in ListLengths(Len(ts)), flags \in ListLengths(Len(ts)) :
          separation = [ pc |-> "call", audio_exists |-> exists,
                         timestamps |-> ts, speaker_labels |-> labels,
                         overlap_flags |-> flags, cuts |-> {}, out |-> <<>> ]

\* the checks before the loop raise; the loop itself skips a turn it cannot
\* cut and goes on with the next one
SegmentSeparationCall ==
    /\ pc = "segment_separation"
    /\ separation.pc = "call"
    /\ LET ts == separation.timestamps
       IN  IF ~separation.audio_exists
           THEN separation' = [separation EXCEPT !.pc = "FileNotFoundError"]
           ELSE IF ~(Len(ts) = separation.speaker_labels
                     /\ separation.speaker_labels = separation.overlap_flags)
           THEN separation' = [separation EXCEPT !.pc = "ValueError"]
           ELSE \E cutOk \in [1..Len(ts) -> BOOLEAN] :
                   separation' =
                       [separation EXCEPT
                           !.pc = "returned",
                           !.cuts = { i \in 1..Len(ts) : SegmentKept(ts[i], TRUE) },
                           !.out = SegmentSeparation(ts, cutOk)]
    /\ UNCHANGED <<pipeVars, voteVars, pathVars, subtitles, handed, final_subs,
                   retry, mux, target_lang, stretch>>

SegmentNext == SegmentSeparationCall

SpecSegment == SegmentInit /\ [][SegmentNext]_vars

----------------------------------------------------------------------------
\* The speed adjustment of text_to_speech, one loop iteration at a time.
\* temp_speed is the fraction num / den; a filter is a factor in thousandths.
\* The model keeps the first MaxFilters entries of the list and the number
\* of iterations modulo 2.

MaxFilters == 12

\* len(y) / sr of the synthesized file: empty, shorter than, equal to and
\* longer than the windows below
StretchDurs == {0, 300, 10000, 25000, 50000, 50020, 100000, 150000, 210000}

\* end_time - start_time of the chunk
StretchWindows == {-1000, 0, 20000, 50000, 100000}

StretchInit ==
    /\ Idle("text_to_speech")
    /\ subtitles = <<>>
    /\ handed = <<>>
    /\ final_subs = <<>>
    /\ retry = NoRetry
    /\ mux = NoMux
    /\ separation = NoSeparation
    /\ \E T \in StretchDurs, w \in StretchWindows :
          stretch = [ pc |-> "speed", tts_dur |-> T, window |-> w,
                      num |-> 0, den |-> 1, filters |-> <<>>, iterations |-> 0 ]

StretchStep(next) ==
    /\ pc = "text_to_speech"
    /\ stretch' = next
    /\ UNCHANGED <<pipeVars, voteVars, pathVars, subtitles, handed, final_subs,
                   retry, mux, target_lang, separation>>

KeepFilter(filters, f) ==
    IF Len(filters) < MaxFilters THEN Append(filters, f) ELSE filters

\* speed = tts_dur / orig_dur, with orig_dur = 0.1 for a non-positive window
Speed ==
    /\ stretch.pc = "speed"
    /\ StretchStep([stretch EXCEPT !.pc = "while_above",
                                   !.num = stretch.tts_dur,
                                   !.den = OrigDur(0, stretch.window)])

\* while temp_speed > 2.0: filters.append("atempo=2.0"); temp_speed /= 2.0
WhileAbove ==
    /\ stretch.pc = "while_above"
    /\ IF stretch.num > 2 * stretch.den
       THEN StretchStep([stretch EXCEPT !.filters = KeepFilter(@, 2000),
                                       !.den = 2 * @,
                                       !.iterations = 1 - @])
       ELSE StretchStep([stretch EXCEPT !.pc = "while_below"])

\* while temp_speed < 0.5: filters.append("atempo=0.5"); temp_speed /= 0.5
WhileBelow ==
    /\ stretch.pc = "while_below"
    /\ IF 2 * stretch.num < stretch.den
       THEN StretchStep([stretch EXCEPT !.filters = KeepFilter(@, 500),
                                       !.num = 2 * @,
                                       !.iterations = 1 - @])
       ELSE StretchStep([stretch EXCEPT !.pc = "last"])

\* if temp_speed != 1.0: filters.append(f"atempo={temp_speed:.3f}")
LastFactor ==
    /\ stretch.pc = "last"
    /\ StretchStep([stretch EXCEPT
           !.pc = "done",
           !.filters = IF stretch.num # stretch.den
                       THEN KeepFilter(@, RoundDiv(stretch.num * 1000, stretch.den))
                       ELSE @])

StretchNext == Speed \/ WhileAbove \/ WhileBelow \/ LastFactor

SpecStretch == StretchInit /\ [][StretchNext]_vars

\* the worker keeps executing the task it has started
SpecStretchLive == StretchInit /\ [][StretchNext]_vars /\ WF_vars(StretchNext)

----------------------------------------------------------------------------
\* Properties

InTrace(stage) == \E k \in 1..Len(trace) : trace[k] = stage

IsPrefix(a, b) == Len(a) <= Len(b) /\ \A k \in 1..Len(a) : a[k] = b[k]

Stage3Started == InTrace("reassemble-segments")

JobComplete == pc = "end" /\ polled = "SUCCESS" /\ result = "stage4_complete"

\* C1: process_stage3 starts only when every chunk unit that process_stage2
\* dispatched has reported its result: no unit is still in flight or failed,
\* and the list it receives holds exactly one result per dispatched chunk, the
\* result of that chunk's unit.
C1_FanInBarrier ==
    Stage3Started =>
        /\ \A i \in 1..Len(units) : units[i].pc = "done"
        /\ Len(stage2_results) = Len(chunks)
        /\ Len(stage2_results) = Len(units)
        /\ \A i \in 1..Len(units) :
              /\ stage2_results[i].speaker_no = chunks[i].speaker_no
              /\ stage2_results[i] = ChunkResult(units[i])

C1_Witness ==
    /\ Stage3Started
    /\ Len(units) >= 2
    /\ \E i \in 1..Len(units) : units[i].audio_path = "None"

\* C2: a chunk unit that fails never aborts the job: when the workflow has
\* ended and some unit failed (and neither reassembly nor mux failed), the job
\* is COMPLETE.
C2_ChunkFailureNeverAbortsJob ==
    ( /\ pc = "end"
      /\ \E i \in 1..Len(units) : units[i].pc = "failed"
      /\ failedStage \notin {"reassemble-segments", "mux-with-video"} )
    => JobComplete

\* C3: when extract-audio, diarize or mux fails, the workflow has ended, no
\* later stage has run, and the state reported to the poller is FAILURE.
C3_FatalStageReportsFailure ==
    failedStage \in {"extract-audio", "diarize", "mux-with-video"} =>
        /\ pc = "end"
        /\ trace[Len(trace)] = failedStage
        /\ polled = "FAILURE"

StageOrder(withOverlap) ==
    <<"extract-audio", "diarize">>
    \o (IF withOverlap THEN <<"overlap-separate">> ELSE <<>>)
    \o <<"segment", "aggregate-speaker-gender", "split-chunks", "chunk-fan-out",
         "reassemble-segments", "reassemble-track", "mux-with-video">>

\* C4: on both workflows the stages run in the order extract-audio, diarize,
\* overlap-separate (conditional), segment, aggregate-speaker-gender,
\* split-chunks, chunk fan-out, reassemble-segments, reassemble-track,
\* mux-with-video, and a job that ends without a failure has run all of them.
C4_StageOrder ==
    /\ \/ IsPrefix(trace, StageOrder(TRUE))
       \/ IsPrefix(trace, StageOrder(FALSE))
    /\ (pc = "end" /\ failedStage = "none") =>
          \/ trace = StageOrder(TRUE)
          \/ trace = StageOrder(FALSE)

AtSynthesis(u) == u.pc \in {"task_tts", "done"}

\* C5: at synthesis time every chunk carries the canonical gender of its
\* speaker, so all chunks of one speaker carry the same gender.
C5_SpeakerGenderConsistent ==
    /\ \A i \in 1..Len(units) :
          AtSynthesis(units[i]) =>
              units[i].gender = speaker_final_gender[units[i].speaker_no]
    /\ \A i, j \in 1..Len(units) :
          ( /\ AtSynthesis(units[i])
            /\ AtSynthesis(units[j])
            /\ units[i].speaker_no = units[j].speaker_no )
          => units[i].gender = units[j].gender

VotesOf(sp) == SpeakerVotes(voteSamples, PredictedGenders(voteSamples), sp)

ConfidenceSum(sp, g) ==
    SeqSum([ i \in 1..Len(voteSamples) |->
               IF voteSamples[i].speaker_no = sp /\ voteSamples[i].res.gender = g
               THEN voteSamples[i].res.confidence ELSE 0 ])

\* C6: the canonical gender of a speaker is the mode of the
\* speaker's votes, and of two genders with the same number of votes the one
\* with the higher average confidence is chosen.
C6_ModeTieByConfidence ==
    \A sp \in DOMAIN voteCanon :
        \A i \in 1..Len(VotesOf(sp)) :
            LET g == voteCanon[sp]
                h == VotesOf(sp)[i]
            IN  \/ Count(VotesOf(sp), g) > Count(VotesOf(sp), h)
                \/ /\ Count(VotesOf(sp), g) = Count(VotesOf(sp), h)
                   /\ ConfidenceSum(sp, g) >= ConfidenceSum(sp, h)

Committed == {"male", "female"}

\* C7: after the aggregation every speaker's canonical gender is male or
\* female, and so is the gender of every chunk handed to synthesis.
C7_GenderAlwaysCommitted ==
    /\ \A sp \in DOMAIN speaker_final_gender : speaker_final_gender[sp] \in Committed
    /\ \A sp \in DOMAIN speaker_map : speaker_map[sp].gender \in Committed
    /\ \A i \in 1..Len(units) : AtSynthesis(units[i]) => units[i].gender \in Committed

ChunkSpans(sid) ==
    [ i \in 1..Len(chunks) |->
        IF chunks[i].segment_id = sid
        THEN chunks[i].end_time - chunks[i].start_time ELSE 0 ]

\* C8: the pieces of every segment artifact are in ascending start order and
\* the artifact's duration is the exact sum of the spans of the segment's
\* chunks, whether or not a synthesis failed.
C8_SegmentDurationIsSumOfSpans ==
    \A a \in 1..Len(segment_artifacts) :
        /\ \A k \in 1..(Len(segment_artifacts[a].pieces) - 1) :
              segment_artifacts[a].pieces[k].start_time
                 <= segment_artifacts[a].pieces[k + 1].start_time
        /\ segment_artifacts[a].duration
              = SeqSum(ChunkSpans(segment_artifacts[a].segment_id))

LastSegmentEnd ==
    SortByStart(segment_artifacts)[Len(segment_artifacts)].end_time

\* C9: the final track's duration is max(last segment end, source duration).
C9_TrackSpansSource ==
    (track # -1 /\ segment_artifacts # <<>>) =>
        track = Max(LastSegmentEnd, srcDur)

ChunksSplit == InTrace("split-chunks")

ChunkIndexes(sid) == { i \in 1..Len(chunks) : chunks[i].segment_id = sid }

\* the chunks of segment sid are contiguous from S.start to S.end, only the
\* last may be shorter than ChunkLen, and each carries S's identity
TilesSegment(sid, S) ==
    LET ix == ChunkIndexes(sid)
    IN  /\ ix # {}
        /\ \E lo, hi \in ix :
              /\ ix = lo..hi
              /\ chunks[lo].start_time = S.start_time
              /\ chunks[hi].end_time = S.end_time
              /\ \A i \in lo..(hi - 1) :
                    /\ chunks[i].end_time = chunks[i + 1].start_time
                    /\ chunks[i].end_time - chunks[i].start_time = ChunkLen
              /\ chunks[hi].end_time - chunks[hi].start_time <= ChunkLen
        /\ \A i \in ix :
              /\ chunks[i].start_time < chunks[i].end_time
              /\ chunks[i].speaker_no = S.speaker_no
              /\ chunks[i].overlap = S.overlap

\* C10: the chunks of every segment S tile it, carry its
\* segment_id, speaker and overlap flag, and their spans sum to S.duration.
C10_ChunksTileSegmentDuration ==
    ChunksSplit =>
        /\ \A i \in 1..Len(chunks) : chunks[i].segment_id \in 0..(Len(segments) - 1)
        /\ \A s \in 1..Len(segments) :
              /\ TilesSegment(s - 1, segments[s])
              /\ SeqSum(ChunkSpans(s - 1)) = segments[s].duration

Aligned(u) == u.pc \in {"task_tts", "done", "blocked"}

WordCount(text) == Cardinality({ k \in 1..Len(text) : text[k] >= 1 })

ChunkBudget(i) == WordBudget(chunks[i].end_time - chunks[i].start_time)

Perms(n) == { p \in [1..n -> 1..n] : \A a, b \in 1..n : p[a] = p[b] => a = b }

Permuted(s, p) == [ k \in 1..Len(s) |-> s[p[k]] ]

C13_ExhaustedBudgetFallsBack ==
    \A i \in 1..Len(units) :
        /\ units[i].pc # "failed"
        /\ (units[i].stt_calls = MaxRetries /\ units[i].detected_lang = "none") =>
              units[i].text = <<>>
        /\ units[i].pc = "done" => units[i].audio_path \in {"None", "wav"}

\* C14: every job eventually ends: every dispatched chunk chain eventually
\* returns or fails, the chord's body or its error handling runs, and the
\* workflow reaches its end.
C14_JobEventuallyEnds == <>(pc = "end")

\* C15: no artifact path is written by two jobs: the upload, the segment
\* files, the synthesized chunk files, the final audio track and the final
\* video of a job are at paths no other job writes to.
C15_PathsPartitioned ==
    \A f, g \in files : f.path = g.path => f.job = g.job

\* C16: when the overlap flag is false the overlap-separate stage passes the
\* job state on with no field added or changed and without invoking the
\* separation collaborator, and segmentation then reads the original
\* extracted audio.
C16_NoOverlapIsPassThrough ==
    /\ [][(pc = "task_overlap_split" /\ ~overlap) =>
            /\ pc' = "task_segment"
            /\ UNCHANGED <<entry, failedStage, polled, result, trace, srcDur,
                           timestamps, overlap, separated, segments,
                           speaker_map, chunks, units, speaker_final_gender,
                           stage2_results, segment_artifacts, track,
                           segment_audio>>]_vars
    /\ []((InTrace("segment") /\ ~overlap) =>
            (~separated /\ segment_audio = "audio_path"))

C16_Witness ==
    /\ InTrace("segment")
    /\ ~overlap
    /\ ~separated
    /\ segment_audio = "audio_path"
    /\ Len(timestamps) > 0

\* C17: a synthesis step that ends without audio (the service failed, or the
\* aligned text has no letter or digit) returns a null audio path with the
\* start, end, speaker and overlap of its chunk, and with no letter or digit
\* in the aligned text the synthesis service is not called.
C17_NullAudioKeepsChunkFields ==
    \A i \in 1..Len(units) :
        (units[i].pc = "done" /\ units[i].audio_path = "None") =>
            /\ units[i].start_time = chunks[i].start_time
            /\ units[i].end_time = chunks[i].end_time
            /\ units[i].speaker_no = chunks[i].speaker_no
            /\ units[i].overlap = chunks[i].overlap
            /\ (~HasAlnum(units[i].aligned_text) => units[i].tts_calls = 0)

\* C18: the start and end of every chunk result are those of its chunk, on
\* every path of the chunk chain, and the start and end of every segment are
\* the padded bounds of the turn it was cut from.
C18_TimeBasePreserved ==
    /\ \A i \in 1..Len(units) :
          units[i].pc = "done" =>
              /\ units[i].start_time = chunks[i].start_time
              /\ units[i].end_time = chunks[i].end_time
    /\ \A k \in 1..Len(segments) :
          \E t \in 1..Len(timestamps) :
              /\ segments[k].start_time = PaddedStart(timestamps[t])
              /\ segments[k].end_time = PaddedEnd(timestamps[t])

\* C19: the transcription step of a chunk shorter than 0.5 s, or of a chunk
\* whose audio is below the silence threshold, calls neither the
\* transcription nor the translation service and ends normally with empty
\* text and the chunk's start, end, speaker, overlap and gender unchanged.
TooShort(u) == u.end_time - u.start_time < SttMinDuration

C19_TranscriptionSkip ==
    [][\A i \in 1..Len(units) :
          ( /\ Len(units') = Len(units)
            /\ units[i].pc = "task_stt"
            /\ units'[i].pc # "task_stt"
            /\ (TooShort(units[i]) \/ units'[i].rms = "silent") ) =>
              /\ units'[i].pc = "task_align"
              /\ units'[i].stt_calls = 0
              /\ units'[i].translate_calls = 0
              /\ units'[i].text = <<>>
              /\ units'[i].start_time = units[i].start_time
              /\ units'[i].end_time = units[i].end_time
              /\ units'[i].speaker_no = units[i].speaker_no
              /\ units'[i].overlap = units[i].overlap
              /\ units'[i].gender = units[i].gender]_vars

C19_Witness ==
    /\ Len(units) = 1
    /\ units[1].pc = "task_align"
    /\ units[1].rms = "silent"
    /\ ~TooShort(units[1])
    /\ units[1].stt_calls = 0
    /\ units[1].text = <<>>

\* C20: for every transcribed chunk the translation service is called exactly
\* when the decision is TRANSLATE, that is when the transcript is not noise
\* and its detected language is not the target language, and a KEEP text is
\* passed on unchanged.
Transcribed(u) == u.pc = "task_align" /\ u.stt_calls >= 1

C20_TranslateDecision ==
    \A i \in 1..Len(units) :
        Transcribed(units[i]) =>
            LET u == units[i]
                decision == GetDecision(u.transcript, u.detected_lang)
            IN  /\ (decision = "TRANSLATE") <=> (u.translate_calls >= 1)
                /\ (decision = "KEEP") => (u.text = u.transcript)

\* C21: a leading structural tag is taken off before translation and put
\* back unchanged: the string handed to a translation backend holds no tag
\* (the tag is removed, and nothing else), the returned text starts with the
\* tag of the input, whichever backend answered or failed, and the outputs
\* are as many as the inputs and in their order.
TagCount(text) == Len(SelectSeq(text, IsTag))

IsWord(token) == token >= 1

PlainWords(text) ==
    LET w == SelectSeq(text, IsWord) IN [ k \in 1..Len(w) |-> w[k] % 100 ]

HasLeadingTag(text) == text # <<>> /\ IsTag(text[1])

C21_TagShielding ==
    (entry = "translate_batch" /\ pc = "end") =>
        /\ Len(final_subs) = Len(subtitles)
        /\ \A i \in 1..Len(subtitles) :
              PlainWords(final_subs[i]) = PlainWords(subtitles[i])
        /\ \A i \in 1..Len(subtitles) :
              HasLeadingTag(subtitles[i]) =>
                  /\ final_subs[i][1] = subtitles[i][1]
                  /\ TagCount(final_subs[i]) = TagCount(subtitles[i])
        /\ \A k \in 1..Len(handed) :
              LET sub == subtitles[((k - 1) % Len(subtitles)) + 1]
              IN  HasLeadingTag(sub) =>
                      /\ TagCount(handed[k]) = TagCount(sub) - 1
                      /\ (TagCount(sub) = 1 => TagCount(handed[k]) = 0)

C21_Witness ==
    /\ entry = "translate_batch"
    /\ pc = "end"
    /\ Len(subtitles) = 2
    /\ HasLeadingTag(subtitles[1])
    /\ ~HasLeadingTag(subtitles[2])
    /\ Len(handed) = 4
    /\ final_subs[1] # subtitles[1]
    /\ final_subs[1][1] = subtitles[1][1]

\* C22: a collaborator call is attempted at most 3 times, never again after
\* its first success, with a wait between two consecutive attempts that
\* grows with the attempt number, and with no wait after the last attempt.
RetryOver == retry.pc \in {"done", "raised", "gave_up"}

C22_BoundedRetryWithBackoff ==
    entry = "retry" =>
        LET log == retry.log
        IN  /\ Len(SelectSeq(log, LAMBDA e : e.ev = "attempt")) <= 3
            /\ \A k \in 1..Len(log) :
                  RetrySucceeded(log[k].outcome) => k = Len(log)
            /\ \A k \in 1..(Len(log) - 1) :
                  log[k].ev = "attempt" =>
                      (log[k + 1].ev = "sleep" /\ log[k + 1].n > 0)
            /\ \A j, k \in 1..Len(log) :
                  (j < k /\ log[j].ev = "sleep" /\ log[k].ev = "sleep") =>
                      log[j].n < log[k].n
            /\ RetryOver => log[Len(log)].ev = "attempt"

\* C23: only the samples the classifier could decide (it answers "unknown"
\* for audio shorter than its minimum length) vote: every speaker's
\* canonical gender is the one the decided samples alone give, so adding or
\* removing undecided samples never changes it.
Decided(sample) == sample.res.gender # "unknown"

CanonOf(samples, sp) ==
    LET sfg == SpeakerFinalGender(samples, PredictedGenders(samples))
    IN  IF sp \in DOMAIN sfg THEN sfg[sp] ELSE "male"

C23_OnlyValidSamplesVote ==
    (entry = "vote" /\ voteCanon # <<>>) =>
        \A sp \in DOMAIN voteCanon :
            voteCanon[sp] = CanonOf(SelectSeq(voteSamples, Decided), sp)

\* C24: when the word budget floor(D * R) of a chunk is zero, its aligned
\* text is the fixed placeholder, which is not the empty string, whatever the
\* text handed to the alignment (the empty text included).
C24_ZeroBudgetPlaceholder ==
    \A i \in 1..Len(units) :
        (Aligned(units[i]) /\ ChunkBudget(i) = 0) =>
            /\ units[i].aligned_text = PlaceholderText
            /\ units[i].aligned_text # <<>>

C24_Witness ==
    /\ entry = "task_align"
    /\ Len(units) = 1
    /\ Aligned(units[1])
    /\ ChunkBudget(1) = 0
    /\ Len(units[1].text) >= 2
    /\ units[1].aligned_text = PlaceholderText

\* C25: a job that ends COMPLETE reports a quality flag, the number of its
\* degraded chunks (null audio, text kept in the original language, or
\* truncated text), which is 0 exactly when no chunk was degraded.
Degraded(u) ==
    \/ u.audio_path = "None"
    \/ (u.stt_calls >= 1 /\ u.detected_lang # Target /\ u.text = u.transcript)
    \/ Len(u.aligned_text) < Len(u.text)

DegradedCount == Cardinality({ i \in 1..Len(units) : Degraded(units[i]) })

QualityFlags(r) ==
    { r[f] : f \in DOMAIN r \ {"status", "final_video_path", "job_id", "error"} }

C25_QualityFlagCountsDegraded ==
    JobComplete => QualityFlags(Stage4Result(result)) = {DegradedCount}

\* C26: the merged video keeps the source video stream unmodified, holds the
\* new audio track and none of the original audio, and lasts as long as the
\* shorter of the video stream and the new audio; a failure of the mux
\* collaborator reaches the caller as a failure, not as a normal return.
C26_MuxReplacesAudioTrimsShortest ==
    (entry = "merge" /\ mux.pc # "merge") =>
        IF mux.ffmpeg_ok
        THEN /\ mux.pc = "returned_output"
             /\ mux.out.video = "copied"
             /\ mux.out.audio = {"new"}
             /\ mux.out.duration = Min(mux.video_dur, mux.audio_dur)
        ELSE mux.pc = "raised"

\* C27: the final video is handed out only to a job that is COMPLETE, and it
\* is that job's video: a download asked for while the job is still running
\* returns no final video, in particular not the one of another job.
C27_RetrievalOnlyOnceComplete ==
    response.status = 200 =>
        /\ response.asker_pc = "end"
        /\ response.writers = {response.asker}

\* C28: the canonical gender the speaker map gives to a speaker, which
\* split-chunks writes into that speaker's chunks, is never replaced by a
\* later step: every chunk carries it when its unit is dispatched and until
\* it is synthesized.
C28_SpeakerProfileReadOnly ==
    \A i \in 1..Len(units) :
        /\ chunks[i].gender = CanonGender(speaker_map, chunks[i].speaker_no)
        /\ units[i].gender = CanonGender(speaker_map, units[i].speaker_no)

\* C29: the aggregate-speaker-gender stage never fails the job: whatever
\* the classifier does, task_speaker_analysis returns a speaker map with one
\* entry for every speaker of the segments, empty when there is no segment.
C29_SpeakerAnalysisNeverFails ==
    /\ failedStage # "aggregate-speaker-gender"
    /\ (entry = "get_stage1_chain" /\ InTrace("aggregate-speaker-gender")) =>
          DOMAIN speaker_map = { segments[k].speaker_no : k \in 1..Len(segments) }

\* C30: every result delivered to the fan-in identifies the segment its chunk
\* came from: it carries the segment_id that split-chunks gave the chunk.
C30_ResultsKeepSegmentId ==
    \A i \in 1..Len(stage2_results) :
        /\ "segment_id" \in DOMAIN stage2_results[i]
        /\ stage2_results[i].segment_id = chunks[i].segment_id

\* C31: the target language submitted with the job is the one every chunk's
\* KEEP/TRANSLATE comparison uses: a transcribed chunk is left untranslated
\* exactly when its detected language is the submitted target.
C31_SubmittedTargetUsed ==
    \A i \in 1..Len(units) :
        Transcribed(units[i]) =>
            (units[i].translate_calls = 0 <=> units[i].detected_lang = target_lang)

SegmentsComplete ==
    \E cutOk \in [1..Len(timestamps) -> BOOLEAN] :
        segments = SegmentSeparation(timestamps, cutOk)

\* C33: the video path submitted with the job is the one the job state
\* carries after split-chunks, the one bound into process_stage3 on the
\* empty-chunk and on the fan-out path, and the one the mux uses; and a stage
\* before the fan-out starts with the complete state its predecessor
\* returned: segmentation with the whole diarization (separated when it
\* overlaps), split-chunks with the whole segment list, process_stage2 with
\* all the chunks of all the segments.
C33_StatePropagation ==
    /\ InTrace("split-chunks") => video_path.data = Submitted
    /\ pc \in {"fanout", "process_stage3", "process_stage4"} =>
          video_path.arg = Submitted
    /\ InTrace("mux-with-video") => video_path.mux = Submitted
    /\ pc = "task_segment" => (overlap => separated)
    /\ pc \in {"task_speaker_analysis", "task_chunk"} => SegmentsComplete
    /\ pc = "process_stage2" =>
          /\ SegmentsComplete
          /\ chunks = TaskChunkChunks(segments, speaker_map)

C33_Witness ==
    /\ InTrace("mux-with-video")
    /\ Len(units) >= 2
    /\ overlap
    /\ video_path.mux = Submitted

Stage2Ran ==
    entry = "_start_pipeline" /\ InTrace("split-chunks") /\ pc # "process_stage2"

RECURSIVE AfterSplit(_)
AfterSplit(tr) ==
    IF tr = <<>> \/ Head(tr) = "split-chunks" THEN Tail(tr) ELSE AfterSplit(Tail(tr))

EmptyPath ==
    (Stage2Ran /\ chunks = <<>>) =>
        /\ units = <<>>
        /\ speaker_final_gender = <<>>
        /\ ~InTrace("aggregate-speaker-gender")
        /\ ~InTrace("chunk-fan-out")
        /\ IsPrefix(AfterSplit(trace),
                    <<"reassemble-segments", "reassemble-track", "mux-with-video">>)
        /\ stage2_results = <<>>
        /\ video_path.arg = video_path.data
        /\ InTrace("mux-with-video") => video_path.mux = video_path.data

NonOverlappingTurns(ts) ==
    \A i, j \in 1..Len(ts) : i < j => ts[i].end <= ts[j].start

\* C34: for turns that do not overlap in time the segments, in start order,
\* do not overlap either: each segment ends no later than the next one
\* starts, so no gap between two segments is negative.
C34_SegmentsDoNotOverlap ==
    (separation.pc = "returned" /\ NonOverlappingTurns(separation.timestamps)) =>
        \A k \in 1..(Len(separation.out) - 1) :
            /\ separation.out[k].start_time <= separation.out[k + 1].start_time
            /\ separation.out[k].end_time <= separation.out[k + 1].start_time

SeparationRaised == separation.pc \in {"FileNotFoundError", "ValueError"}

\* C36: every segment segment_separation returns has start >= 0, end > start,
\* duration = end - start >= the minimum duration, and the speaker and
\* overlap flag of its turn; a turn with invalid timestamps, a too short
\* padded span or a failed cut has no segment and the call still returns;
\* lists of unequal length or a missing audio file raise before any cut.
C36_SegmentationOutputValid ==
    LET ts  == separation.timestamps
        out == separation.out
    IN  /\ separation.pc = "returned" =>
              /\ \A k \in 1..Len(out) :
                    /\ out[k].start_time >= 0
                    /\ out[k].end_time > out[k].start_time
                    /\ out[k].duration = out[k].end_time - out[k].start_time
                    /\ out[k].duration >= MinDuration
                    /\ out[k].segment_path \in separation.cuts
                    /\ out[k].speaker_no = ts[out[k].segment_path].speaker
                    /\ out[k].overlap = ts[out[k].segment_path].overlap
              /\ \A i \in 1..Len(ts) :
                    ~ValidTimestamp(ts[i].start, ts[i].end) =>
                        \A k \in 1..Len(out) : out[k].segment_path # i
        /\ ( separation.pc # "call"
             /\ (~separation.audio_exists
                 \/ separation.speaker_labels # Len(ts)
                 \/ separation.overlap_flags # Len(ts)) ) =>
              /\ SeparationRaised
              /\ separation.cuts = {}
              /\ out = <<>>

\* the offset in the final track at which the audio of the k-th segment
\* artifact (in start order) begins: the silences and artifacts before it
RECURSIVE TrackOffset(_, _)
TrackOffset(arts, k) ==
    IF k = 1 THEN Max(0, arts[1].start_time)
    ELSE TrackOffset(arts, k - 1) + arts[k - 1].duration
         + Max(0, arts[k].start_time - arts[k - 1].end_time)

\* C35: in the final track the audio of every segment begins at the offset
\* equal to the segment's absolute start time in the source, a first segment
\* that starts after 0 is preceded by silence of that length, and the track
\* is as long as the source.
C35_AbsoluteTimeReference ==
    track # -1 =>
        LET arts == SortByStart(segment_artifacts)
        IN  /\ \A k \in 1..Len(arts) : TrackOffset(arts, k) = arts[k].start_time
            /\ track >= srcDur

RECURSIVE StretchProduct(_)
StretchProduct(fs) == IF fs = <<>> THEN 1 ELSE Head(fs) * StretchProduct(Tail(fs))

RECURSIVE Thousands(_)
Thousands(n) == IF n = 0 THEN 1 ELSE 1000 * Thousands(n - 1)

\* C37: for a produced duration T > 0 and a window D > 0 every factor of
\* the chain lies within [0.5, 2.0], the product of the factors is T / D, and
\* the chain is empty exactly when T / D = 1.
C37_ChainedStretch ==
    ( stretch.pc = "done" /\ stretch.tts_dur > 0 /\ stretch.window > 0 ) =>
        /\ \A k \in 1..Len(stretch.filters) :
              stretch.filters[k] >= 500 /\ stretch.filters[k] <= 2000
        /\ StretchProduct(stretch.filters) * stretch.window
              = stretch.tts_dur * Thousands(Len(stretch.filters))
        /\ stretch.filters = <<>> <=> stretch.tts_dur = stretch.window

\* C38: the loops that build the chain end for every produced duration
\* T >= 0 and every window, a file of zero length and a non-positive window
\* included: text_to_speech always gets past them.
C38_StretchLoopsTerminate == <>(stretch.pc = "done")

Answered200(log) == \E k \in 1..Len(log) : log[k].outcome = "200"

\* C39: sarvam_translate never raises, whatever its requests give: it sends
\* at most 3 requests, stops at the first 200 answer and returns its
\* translated text, and after 3 failed requests returns the input text.
C39_TranslateIsTotal ==
    retry.call = "translate" =>
        /\ retry.pc # "raised"
        /\ retry.attempt <= 3
        /\ retry.pc = "done" =>
              /\ retry.log[Len(retry.log)].outcome = "200"
              /\ ~Answered200(SubSeq(retry.log, 1, Len(retry.log) - 1))
              /\ retry.returns = "translated_text"
        /\ retry.pc = "gave_up" =>
              /\ retry.attempt = 3
              /\ ~Answered200(retry.log)
              /\ retry.returns = "text"
        /\ retry.pc \in {"attempt", "sleep"} =>
              /\ retry.attempt < 3
              /\ ~Answered200(retry.log)
              /\ retry.returns = "none"

C39_Witness ==
    /\ retry.call = "translate"
    /\ retry.pc = "gave_up"
    /\ \E k \in 1..Len(retry.log) : retry.log[k].outcome = "timeout"
    /\ \E k \in 1..Len(retry.log) : retry.log[k].outcome = "500"
    /\ \E k \in 1..Len(retry.log) : retry.log[k].outcome = "error"

====
